---- MODULE Spec2Model ----
(***************************************************************************)
(* Quote resolution engine of app.py: tolerant numeric coercion            *)
(* (to_float_safe), alias based row extraction (extract_from_row_dict),    *)
(* the table reader (get_price_from_df) and the provider cascade of        *)
(* price() with its two attempt functions try_legacy and try_v3.           *)
(***************************************************************************)
EXTENDS Integers, Sequences, FiniteSets, TLC

(***************************************************************************)
(* Bounds of the input space.                                              *)
(***************************************************************************)
\* largest number of key/value pairs of a drawn record
MaxFields == 2

\* the longest string drawn as an argument of to_float_safe
MaxStrLen == 3

(***************************************************************************)
(* Python values.  Every scalar is a record of one shape so that any two   *)
(* of them can be compared:                                                *)
(*   k = "null"  None                                                      *)
(*   k = "num"   a finite float, m * 10^(-e), normalised (no trailing 0)   *)
(*   k = "nan"   float('nan')                                              *)
(*   k = "str"   a str, s is its sequence of characters                    *)
(*   k = "obj"   a provider-native object (timestamp-like); float() of it  *)
(*               raises, s is the text str() gives for it                  *)
(***************************************************************************)
Null == [k |-> "null", m |-> 0, e |-> 0, s |-> <<>>]

NaN == [k |-> "nan", m |-> 0, e |-> 0, s |-> <<>>]

Num(m, e) == [k |-> "num", m |-> m, e |-> e, s |-> <<>>]

Str(s) == [k |-> "str", m |-> 0, e |-> 0, s |-> s]

Obj(s) == [k |-> "obj", m |-> 0, e |-> 0, s |-> s]

\* "x is None"
IsNone(v) == v.k = "null"

Digits == {"0", "1", "2", "3", "4", "5", "6", "7", "8", "9"}

DigitVal(c) ==
  CASE c = "0" -> 0 [] c = "1" -> 1 [] c = "2" -> 2 [] c = "3" -> 3
    [] c = "4" -> 4 [] c = "5" -> 5 [] c = "6" -> 6 [] c = "7" -> 7
    [] c = "8" -> 8 [] c = "9" -> 9

\* str.strip(): leading and trailing blanks removed
RECURSIVE Strip(_)
Strip(s) ==
  IF s = <<>> THEN s
  ELSE IF Head(s) = " " THEN Strip(Tail(s))
  ELSE IF s[Len(s)] = " " THEN Strip(SubSeq(s, 1, Len(s) - 1))
  ELSE s

\* str.replace(",", "")
RemoveCommas(s) == SelectSeq(s, LAMBDA c : c # ",")

\* the integer a sequence of decimal digits denotes
RECURSIVE DigitsToInt(_)
DigitsToInt(s) ==
  IF s = <<>> THEN 0
  ELSE 10 * DigitsToInt(SubSeq(s, 1, Len(s) - 1)) + DigitVal(s[Len(s)])

\* a decimal m * 10^(-e) without trailing zeros in its fraction
RECURSIVE Normalise(_, _)
Normalise(m, e) ==
  IF e > 0 /\ m % 10 = 0 THEN Normalise(m \div 10, e - 1) ELSE Num(m, e)

\* the outcome of a parse: a value, or (ok = FALSE) ValueError/TypeError
Parsed(v) == [ok |-> TRUE, v |-> v]

ParseError == [ok |-> FALSE, v |-> Null]

\* the position of the first point of t, Len(t) + 1 when it has none
DotIndex(t) ==
  IF \E i \in DOMAIN t : t[i] = "."
    THEN CHOOSE i \in DOMAIN t : t[i] = "." /\ \A j \in 1..(i - 1) : t[j] # "."
  ELSE Len(t) + 1

\* a decimal literal: digits with at most one point (at dot), one digit at least
FloatOfDecimal(t, dot) ==
  IF /\ \A i \in DOMAIN t : i = dot \/ t[i] \in Digits
     /\ Len(t) > (IF dot <= Len(t) THEN 1 ELSE 0)
    THEN Parsed(Normalise(DigitsToInt(SubSeq(t, 1, dot - 1) \o SubSeq(t, dot + 1, Len(t))),
                          Len(t) - (IF dot <= Len(t) THEN dot ELSE Len(t))))
  ELSE ParseError

\* a literal without blanks around it: "nan" or a decimal
FloatOfLiteral(t) ==
  IF t = <<"n", "a", "n">> THEN Parsed(NaN) ELSE FloatOfDecimal(t, DotIndex(t))

\* float(s) of a str: blanks around the literal are ignored
FloatOfStr(s) == FloatOfLiteral(Strip(s))

\* a float() that takes a str only
FloatOfStrOnly(v) == IF v.k = "str" THEN FloatOfStr(v.s) ELSE ParseError

\* float(v): of a float the float itself, of a str its literal, TypeError
\* (ok = FALSE) of any other object
Float(v) ==
  CASE v.k = "num" -> Parsed(v)
    [] v.k = "nan" -> Parsed(v)
    [] v.k = "str" -> FloatOfStr(v.s)
    [] OTHER -> ParseError

\* lines 25-26: except Exception: return None
ValueOrNone(p) == IF p.ok THEN p.v ELSE Null

\* lines 19-26: the first parse, or float(str(v).replace(",", "").strip())
FloatOrRetry(first, v) ==
  IF first.ok THEN first.v
  ELSE ValueOrNone(FloatOfStr(Strip(RemoveCommas(v.s))))

\* to_float_safe(v)
to_float_safe(v) == IF IsNone(v) THEN Null ELSE FloatOrRetry(Float(v), v)

(***************************************************************************)
(* Records (rows).  A dict is the sequence of its <<key, value>> pairs in  *)
(* insertion order, keys distinct.  NonStrKey is a column label that is    *)
(* not a str (an integer label): k.lower() raises on it.                   *)
(***************************************************************************)
NonStrKey == "#0"

\* k.lower() on the column labels that occur
Lower(k) ==
  CASE k = "lastPrice" -> "lastprice"
    [] k = "Close" -> "close"
    [] k = "Open" -> "open"
    [] k = "Time" -> "time"
    [] OTHER -> k

\* {k.lower(): v for k, v in row_dict.items()}: a later pair overrides an
\* earlier one with the same folded key
LowerDict(row) ==
  LET keys == {Lower(row[i][1]) : i \in DOMAIN row}
      lastOf(lk) == CHOOSE i \in DOMAIN row :
                      /\ Lower(row[i][1]) = lk
                      /\ \A j \in DOMAIN row : Lower(row[j][1]) = lk => j <= i
  IN  [lk \in keys |-> row[lastOf(lk)][2]]

price_keys ==
  << "lastprice", "pricelast", "matchprice", "match_price", "last", "close",
     "price", "closeprice", "close_price", "c", "match" >>

time_keys ==
  << "time", "datetime", "date", "updatedat", "updated_at", "matchtime",
     "timestamp" >>

open_keys == << "open", "openprice", "priceopen", "o", "open_price" >>

close_keys ==
  << "close", "closeprice", "pricelast", "lastprice", "c", "matchprice",
     "priceclose", "close_price" >>

RECURSIVE ScanNumeric(_, _, _)

\* the loop body breaking on the first alias present and not None, whether
\* or not its value coerced
ScanStepBreakAlways(keys, lower, i, x) == x

\* "x = to_float_safe(lower[k]); if x is not None: break", else the next alias
ScanStep(keys, lower, i, x) ==
  IF ~IsNone(x) THEN x ELSE ScanNumeric(keys, lower, i + 1)

\* for k in keys: if k in lower and lower[k] is not None: ...
\* the loop from alias i on; None when it runs out of aliases
ScanNumeric(keys, lower, i) ==
  IF i > Len(keys) THEN Null
  ELSE IF keys[i] \in DOMAIN lower /\ ~IsNone(lower[keys[i]])
    THEN ScanStep(keys, lower, i, to_float_safe(lower[keys[i]]))
  ELSE ScanNumeric(keys, lower, i + 1)

\* for k in time_keys: if k in lower and lower[k] is not None: tval = ...; break
RECURSIVE ScanTime(_, _, _)
ScanTime(keys, lower, i) ==
  IF i > Len(keys) THEN Null
  ELSE IF keys[i] \in DOMAIN lower /\ ~IsNone(lower[keys[i]])
    THEN lower[keys[i]]
  ELSE ScanTime(keys, lower, i + 1)

\* the decimal digits of a natural number
RECURSIVE IntToDigits(_)
IntToDigits(n) ==
  LET d == CHOOSE c \in Digits : DigitVal(c) = n % 10
  IN  IF n < 10 THEN <<d>> ELSE Append(IntToDigits(n \div 10), d)

\* the fraction digits of m * 10^(-e), e > 0, zero padded on the left
RECURSIVE FracDigits(_, _)
FracDigits(m, e) ==
  IF e = 0 THEN <<>>
  ELSE Append(FracDigits(m \div 10, e - 1), IntToDigits(m % 10)[1])

RECURSIVE Pow10(_)
Pow10(e) == IF e = 0 THEN 1 ELSE 10 * Pow10(e - 1)

\* str(v) of a value that is not None
PyStr(v) ==
  CASE v.k = "str" -> v
    [] v.k = "obj" -> Str(v.s)
    [] v.k = "nan" -> Str(<<"n", "a", "n">>)
    [] v.k = "num" ->
         Str(IntToDigits(v.m \div Pow10(v.e)) \o <<".">>
               \o (IF v.e = 0 THEN <<"0">> ELSE FracDigits(v.m, v.e)))

\* the four values of a row, raised = TRUE when the function raises
Quad(p, t, o, c) ==
  [raised |-> FALSE, price |-> p, time |-> t, open |-> o, close |-> c]

NoneQuad == Quad(Null, Null, Null, Null)

RaisedQuad == [NoneQuad EXCEPT !.raised = TRUE]

\* line 61: tstr = str(tval) if tval is not None else None
TimeStr(tval) == IF IsNone(tval) THEN Null ELSE PyStr(tval)

\* lines 39-81: the four scans of the case-folded record
ExtractLower(lower) ==
  Quad(ScanNumeric(price_keys, lower, 1),
       TimeStr(ScanTime(time_keys, lower, 1)),
       ScanNumeric(open_keys, lower, 1),
       ScanNumeric(close_keys, lower, 1))

\* extract_from_row_dict(row_dict); row_dict is a dict here (None is
\* handled by the callers' "if rd" tests)
extract_from_row_dict(row_dict) ==
  IF row_dict = <<>> THEN NoneQuad
  ELSE IF \E i \in DOMAIN row_dict : row_dict[i][1] = NonStrKey THEN RaisedQuad
  ELSE ExtractLower(LowerDict(row_dict))

(***************************************************************************)
(* Tables.  What an upstream call hands back is one of                     *)
(*   k = "none"     None                                                   *)
(*   k = "df"       a DataFrame, rows its records in order (.empty when    *)
(*                  there are none; tail/head/iloc and Series.to_dict work)*)
(*   k = "list"     a plain list of dicts (no .empty, no tail/head; df[-1] *)
(*                  and dict(row) work)                                    *)
(*   k = "foreign"  an object on which every indexing raises               *)
(*   k = "scalars"  a list whose elements are no mappings: df[-1] works,   *)
(*                  to_dict() and dict() of the element raise              *)
(***************************************************************************)
NoneDf == [k |-> "none", rows |-> <<>>]

DataFrame(rows) == [k |-> "df", rows |-> rows]

PyList(rows) == [k |-> "list", rows |-> rows]

ForeignDf == [k |-> "foreign", rows |-> <<>>]

ScalarList == [k |-> "scalars", rows |-> <<>>]

\* a row dict or None
NoRow == [some |-> FALSE, kv |-> <<>>]

SomeRow(kv) == [some |-> TRUE, kv |-> kv]

\* "if rd": a dict that is not None and not empty
Truthy(rd) == rd.some /\ rd.kv # <<>>

\* getattr(df, "empty", dflt)
EmptyAttr(df, dflt) == IF df.k = "df" THEN df.rows = <<>> ELSE dflt

\* rd_last: df.tail(1).iloc[0], else df[-1], else None; then to_dict()/dict()
LastRowDict(df) ==
  IF df.k \in {"df", "list"} /\ df.rows # <<>>
    THEN SomeRow(df.rows[Len(df.rows)])
  ELSE NoRow

\* rd_first: df.head(1).iloc[0] converted, None when that raises
FirstRowDict(df) ==
  IF df.k = "df" /\ df.rows # <<>> THEN SomeRow(df.rows[1]) ELSE NoRow

\* lines 133-140: the open taken from the first row's values f: its open,
\* else its price; x with that open, raised when extracting f raised
OpenFromFirst(x, f) ==
  IF f.raised THEN RaisedQuad
  ELSE IF ~IsNone(f.open) THEN [x EXCEPT !.open = f.open]
  ELSE IF ~IsNone(f.price) THEN [x EXCEPT !.open = f.price]
  ELSE x

\* lines 132-140: if open_p is None and rd_first
WithOpen(x, rd_first) ==
  IF IsNone(x.open) /\ Truthy(rd_first)
    THEN OpenFromFirst(x, extract_from_row_dict(rd_first.kv))
  ELSE x

\* the close taken from the last row's close only
CloseFromLastOnly(x, l, price) ==
  IF l.raised THEN RaisedQuad
  ELSE IF ~IsNone(l.close) THEN [x EXCEPT !.close = l.close]
  ELSE x

\* lines 144-150: the close taken from the last row's values l: its close,
\* else the price resolved before
CloseFromLast(x, l, price) ==
  IF l.raised THEN RaisedQuad
  ELSE IF ~IsNone(l.close) THEN [x EXCEPT !.close = l.close]
  ELSE IF ~IsNone(price) THEN [x EXCEPT !.close = price]
  ELSE x

\* lines 143-150: if close_p is None and rd_last
WithClose(x, rd_last) ==
  IF ~x.raised /\ IsNone(x.close) /\ Truthy(rd_last)
    THEN CloseFromLast(x, extract_from_row_dict(rd_last.kv), x.price)
  ELSE x

\* the second pass behind "if open_p is None" alone
SecondPassOpenOnly(x, rd_first, rd_last) ==
  IF x.raised THEN x
  ELSE IF IsNone(x.open)
    THEN WithClose(WithOpen(x, rd_first), rd_last)
  ELSE x

\* lines 121-150: if (open_p is None) or (close_p is None)
SecondPass(x, rd_first, rd_last) ==
  IF x.raised THEN x
  ELSE IF IsNone(x.open) \/ IsNone(x.close)
    THEN WithClose(WithOpen(x, rd_first), rd_last)
  ELSE x

\* the final normalisation without the except of line 158
NormalisedNoExcept(x) ==
  IF x.raised THEN x
  ELSE Quad(to_float_safe(x.price), x.time, to_float_safe(x.open),
            to_float_safe(x.close))

\* lines 152-160: the final normalisation; a raise anywhere in the body gives
\* the all-None result
Normalised(x) ==
  IF x.raised THEN NoneQuad
  ELSE Quad(to_float_safe(x.price), x.time, to_float_safe(x.open),
            to_float_safe(x.close))

\* line 118: extract_from_row_dict(rd_last) if rd_last else (None, ...)
ExtractIf(rd) ==
  IF Truthy(rd) THEN extract_from_row_dict(rd.kv) ELSE NoneQuad

\* lines 99-157 for a table that is not None and not .empty
ReadRows(rd_first, rd_last) ==
  Normalised(SecondPass(ExtractIf(rd_last), rd_first, rd_last))

\* get_price_from_df(df)
get_price_from_df(df) ==
  IF df.k = "none" THEN NoneQuad
  ELSE IF EmptyAttr(df, FALSE) THEN NoneQuad
  ELSE ReadRows(FirstRowDict(df), LastRowDict(df))

\* "price is not None or open_p is not None or close_p is not None"
AnyPresent(q) == ~IsNone(q.price) \/ ~IsNone(q.open) \/ ~IsNone(q.close)

(***************************************************************************)
(* The cascade of price(): state.                                          *)
(***************************************************************************)
VARIABLES
  pc,         \* position of the request in price() / try_legacy / try_v3
  modOK,      \* "import vnstock" succeeds
  hasH,       \* hasattr(vnstock, "stock_historical_data")
  debug,      \* request argument debug
  fallback,   \* request argument fallback
  result,     \* price(): result
  details,    \* price(): details, a dict
  legacyRet,  \* what try_legacy(sym) came back with
  v3Ret,      \* what try_v3(sym) came back with
  df,         \* the local df of try_v3
  src,        \* index of the backing source try_v3 probes next
  out,        \* the response dict, empty until it is built
  calls,      \* history: the upstream calls made, in order, with how they ended
  rowArg,     \* argument of extract_from_row_dict
  rowRes,     \* its result
  tblArg,     \* argument of get_price_from_df
  tblRes,     \* its result
  valArg,     \* argument of to_float_safe
  valOnce,    \* to_float_safe(valArg)
  valTwice    \* to_float_safe(valOnce)

vars ==
  << pc, modOK, hasH, debug, fallback, result, details, legacyRet, v3Ret, df,
     src, out, calls, rowArg, rowRes, tblArg, tblRes, valArg, valOnce,
     valTwice >>

request == << modOK, hasH, debug, fallback >>

rowVars == << rowArg, rowRes >>

tblVars == << tblArg, tblRes >>

valVars == << valArg, valOnce, valTwice >>

\* the variables of the functions run on their own, which a request leaves alone
sideVars == << rowVars, tblVars, valVars >>

\* None in a slot that otherwise holds a Python str literal
PyNone == "None"

\* the symbol of the request after normalisation; an empty one becomes "VNM"
sym == "VNM"

\* the dict an attempt returns as r, or None (some = FALSE)
NoneR ==
  [some |-> FALSE, provider |-> PyNone, price |-> Null, time |-> Null,
   open |-> Null, close |-> Null]

QuoteR(provider, q) ==
  [some |-> TRUE, provider |-> provider, price |-> q.price, time |-> q.time,
   open |-> q.open, close |-> q.close]

\* the (r, info) pair an attempt returns; raised = TRUE when the attempt
\* raises instead of returning; level "unset" before the attempt has run
Ret(r, level, msg) == [raised |-> FALSE, r |-> r, level |-> level, msg |-> msg]

NoRet == Ret(NoneR, "unset", "")

Raised(exc) == [raised |-> TRUE, r |-> NoneR, level |-> "raise", msg |-> exc]

\* return {...}, None
Success(provider, q) == Ret(QuoteR(provider, q), "none", "")

\* return None, {"error": msg}
Error(msg) == Ret(NoneR, "error", msg)

\* return None, {"info": msg}
Info(msg) == Ret(NoneR, "info", msg)

\* result = {"symbol": sym, "price": None, ...}
InitResult ==
  [symbol |-> sym, price |-> Null, time |-> Null, open |-> Null,
   close |-> Null, provider |-> PyNone]

\* the update with "provider" left out of the dict
UpdateNoProvider(res, r) ==
  [res EXCEPT !.price = r.price, !.time = r.time, !.open = r.open,
              !.close = r.close]

\* result.update({...}) from an attempt's dict
Update(res, r) ==
  [res EXCEPT !.price = r.price, !.time = r.time, !.open = r.open,
              !.close = r.close, !.provider = r.provider]

\* result["price"] is None and result["open"] is None and result["close"] is None
AllNone(res) == IsNone(res.price) /\ IsNone(res.open) /\ IsNone(res.close)

(***************************************************************************)
(* What the upstream library may answer.                                   *)
(***************************************************************************)
\* first row, last row of section 8 of the specification
TwoRowTable ==
  DataFrame(<< << <<"open", Num(9, 0)>>, <<"close", Null>> >>,
               << <<"open", Null>>, <<"close", Num(11, 0)>> >> >>)

\* one row, nothing in it coerces
GarbageTable ==
  DataFrame(<< << <<"price", Str(<<"n", "/", "a">>)>> >> >>)

\* a list of dicts instead of a DataFrame
ListTable == PyList(<< << <<"lastPrice", Num(10, 0)>> >> >>)

\* one row with an open and nothing else
OpenOnlyTable == DataFrame(<< << <<"Open", Num(9, 0)>> >> >>)

Tables ==
  {NoneDf, DataFrame(<<>>), TwoRowTable, GarbageTable, ListTable, OpenOnlyTable}

\* a quote operation returns a table or raises
Returns(tbl) == [k |-> "ret", tbl |-> tbl]

Raises(exc) == [k |-> exc, tbl |-> NoneDf]

Responses == {Returns(t) : t \in Tables} \cup {Raises("TypeError"), Raises("Error")}

\* v.stock(...) returns a handle, returns None or raises
HandleResponses == {"handle", "none", "raise"}

Call(op, shape, res) == [op |-> op, shape |-> shape, res |-> res]

\* for src in ("VCI", "TCBS", "SSI")
Sources == << "VCI", "TCBS", "SSI" >>

\* 'Vnstock' in globals(): the module never binds that name globally (it is
\* imported inside try_v3 and inside the fallback block only)
VnstockInGlobals == FALSE

(***************************************************************************)
(* price(): what it does with the outcome of a stage.                      *)
(***************************************************************************)
\* values of details
DetailText(s) == [text |-> s, level |-> "", r |-> NoneR]

DetailInfo(ret) == [text |-> ret.msg, level |-> ret.level, r |-> NoneR]

DetailQuote(r) == [text |-> "", level |-> "", r |-> r]

\* the entries price() adds to details after the attempt named stage
\* ("legacy" or "v3") came back with ret
StageDetails(stage, ret) ==
  IF ret.raised THEN (stage \o "_exception") :> DetailText(ret.msg)
  ELSE IF ret.r.some
    THEN IF debug
           THEN (stage :> DetailText("ok"))
                  @@ ((stage \o "_detail") :> DetailQuote(ret.r))
         ELSE stage :> DetailText("ok")
  ELSE (stage \o "_info") :> DetailInfo(ret)

\* the update of a stage with "open" left out of the dict
StageResultNoOpen(res, ret) ==
  IF ~ret.raised /\ ret.r.some
    THEN [Update(res, ret.r) EXCEPT !.open = res.open]
  ELSE res

\* "if r: result.update(...)"
StageResult(res, ret) ==
  IF ~ret.raised /\ ret.r.some THEN Update(res, ret.r) ELSE res

\* line 295: the guard of stage 3
AfterV3(res) ==
  IF AllNone(res) /\ fallback = "close" THEN "f_import" ELSE "respond"

\* the guard of stage 2 without the test of result
AfterLegacyAlways(res) == "v_import"

\* line 281: the guard of stage 2
AfterLegacy(res) == IF AllNone(res) THEN "v_import" ELSE AfterV3(res)

\* lines 268-278: try_legacy has come back (or raised)
LegacyDone(ret) ==
  /\ legacyRet' = ret
  /\ result' = StageResult(result, ret)
  /\ details' = details @@ StageDetails("legacy", ret)
  /\ pc' = AfterLegacy(result')

\* lines 282-292: try_v3 has come back (or raised)
V3Done(ret) ==
  /\ v3Ret' = ret
  /\ result' = StageResult(result, ret)
  /\ details' = details @@ StageDetails("v3", ret)
  /\ df' = NoneDf
  /\ src' = 0
  /\ pc' = AfterV3(result')

(***************************************************************************)
(* try_legacy(symbol)                                                      *)
(***************************************************************************)
\* the handler of line 192 letting the exception through
LegacyExceptPropagates(exc) == Raised(exc)

\* lines 192-194: except Exception as e
LegacyExcept(exc) == Error("legacy usage exception")

\* lines 164-168: import vnstock as vn
LegacyImport ==
  /\ pc = "l_import"
  /\ IF modOK
       THEN /\ pc' = "l_intraday"
            /\ UNCHANGED << result, details, legacyRet >>
     ELSE LegacyDone(Error("legacy import failed"))
  /\ UNCHANGED << request, v3Ret, df, src, out, calls, sideVars >>

\* lines 178-179 and the way on to line 182, q the values read
LegacyIntradayRead(q) ==
  IF AnyPresent(q) THEN LegacyDone(Success("vnstock-legacy-intraday", q))
  ELSE /\ pc' = "l_history"
       /\ UNCHANGED << result, details, legacyRet >>

\* line 177
LegacyAfterIntraday(tbl) == LegacyIntradayRead(get_price_from_df(tbl))

\* lines 172-174: hasattr test and the keyword call of stock_intraday_data
LegacyIntraday ==
  /\ pc = "l_intraday"
  /\ \E hasI \in BOOLEAN :
       IF ~hasI
         THEN /\ pc' = "l_history"
              /\ UNCHANGED << result, details, legacyRet, calls >>
       ELSE \E resp \in Responses :
              /\ calls' = Append(calls, Call("legacy.intraday", "kw", resp.k))
              /\ CASE resp.k = "TypeError" ->
                        /\ pc' = "l_intraday_alt"
                        /\ UNCHANGED << result, details, legacyRet >>
                   [] resp.k = "Error" -> LegacyDone(LegacyExcept(resp.k))
                   [] OTHER -> LegacyAfterIntraday(resp.tbl)
  /\ UNCHANGED << request, v3Ret, df, src, out, sideVars >>

\* lines 175-176: except TypeError, the positional call
LegacyIntradayAlt ==
  /\ pc = "l_intraday_alt"
  /\ \E resp \in Responses :
       /\ calls' = Append(calls, Call("legacy.intraday", "pos", resp.k))
       /\ IF resp.k = "ret" THEN LegacyAfterIntraday(resp.tbl)
          ELSE LegacyDone(LegacyExcept(resp.k))
  /\ UNCHANGED << request, v3Ret, df, src, out, sideVars >>

\* lines 188-191, q the values read
LegacyHistoryRead(q) ==
  IF AnyPresent(q) THEN LegacyDone(Success("vnstock-legacy-history", q))
  ELSE LegacyDone(Info("legacy present but returned no data"))

\* line 187
LegacyAfterHistory(tbl) == LegacyHistoryRead(get_price_from_df(tbl))

\* lines 182-184: hasattr test and the keyword call of stock_historical_data
LegacyHistory ==
  /\ pc = "l_history"
  /\ IF ~hasH
       THEN /\ LegacyDone(Info("legacy present but returned no data"))
            /\ UNCHANGED calls
     ELSE \E resp \in Responses :
            /\ calls' = Append(calls, Call("legacy.history", "kw", resp.k))
            /\ CASE resp.k = "TypeError" ->
                      /\ pc' = "l_history_alt"
                      /\ UNCHANGED << result, details, legacyRet >>
                 [] resp.k = "Error" -> LegacyDone(LegacyExcept(resp.k))
                 [] OTHER -> LegacyAfterHistory(resp.tbl)
  /\ UNCHANGED << request, v3Ret, df, src, out, sideVars >>

\* lines 185-186: except TypeError, the positional call
LegacyHistoryAlt ==
  /\ pc = "l_history_alt"
  /\ \E resp \in Responses :
       /\ calls' = Append(calls, Call("legacy.history", "pos", resp.k))
       /\ IF resp.k = "ret" THEN LegacyAfterHistory(resp.tbl)
          ELSE LegacyDone(LegacyExcept(resp.k))
  /\ UNCHANGED << request, v3Ret, df, src, out, sideVars >>

(***************************************************************************)
(* try_v3(symbol)                                                          *)
(***************************************************************************)
\* lines 251-253: except Exception as e
V3Except(exc) == Error("v3 exception")

\* lines 198-202: from vnstock import Vnstock
V3Import ==
  /\ pc = "v_import"
  /\ \E hasV \in BOOLEAN :
       IF modOK /\ hasV
         THEN /\ pc' = "v_ctor"
              /\ UNCHANGED << result, details, v3Ret, df, src >>
       ELSE V3Done(Error("v3 import failed"))
  /\ UNCHANGED << request, legacyRet, out, calls, sideVars >>

\* line 205: v = Vnstock()
V3Ctor ==
  /\ pc = "v_ctor"
  /\ \E res \in {"ret", "Error"} :
       /\ calls' = Append(calls, Call("v3.Vnstock", "kw", res))
       /\ IF res = "ret"
            THEN /\ pc' = "v_stock"
                 /\ UNCHANGED << result, details, v3Ret, df, src >>
          ELSE V3Done(V3Except(res))
  /\ UNCHANGED << request, legacyRet, out, sideVars >>

\* lines 207-209: stock_obj = v.stock(symbol=symbol)
V3StockKw ==
  /\ pc = "v_stock"
  /\ \E h \in HandleResponses :
       /\ calls' = Append(calls, Call("v3.stock", "kw", h))
       /\ pc' = CASE h = "handle" -> "v_intraday"
                  [] h = "raise" -> "v_stock_pos"
                  [] OTHER -> "v_source"
       /\ src' = IF h = "none" THEN 1 ELSE 0
  /\ UNCHANGED << request, result, details, legacyRet, v3Ret, df, out, sideVars >>

\* lines 210-213: except Exception, stock_obj = v.stock(symbol)
V3StockPos ==
  /\ pc = "v_stock_pos"
  /\ \E h \in HandleResponses :
       /\ calls' = Append(calls, Call("v3.stock", "pos", h))
       /\ pc' = IF h = "handle" THEN "v_intraday" ELSE "v_source"
       /\ src' = IF h = "handle" THEN 0 ELSE 1
  /\ UNCHANGED << request, result, details, legacyRet, v3Ret, df, out, sideVars >>

\* the probing loop without its break: the last source decides
ProbeNoBreak(h, i) ==
  [stop |-> i = Len(Sources), got |-> h = "handle"]

\* lines 216-223: one turn of "for src in ...": whether the loop ends after
\* the answer h of source i, and whether stock_obj is a handle then
Probe(h, i) ==
  [stop |-> h = "handle" \/ i = Len(Sources), got |-> h = "handle"]

\* lines 216-226: one probe, and the return of line 226 after the last
V3Source ==
  /\ pc = "v_source"
  /\ \E h \in HandleResponses :
       /\ calls' = Append(calls, Call("v3.stock", Sources[src], h))
       /\ IF ~Probe(h, src).stop
            THEN /\ src' = src + 1
                 /\ UNCHANGED << pc, result, details, v3Ret, df >>
          ELSE IF Probe(h, src).got
            THEN /\ pc' = "v_intraday"
                 /\ src' = 0
                 /\ UNCHANGED << result, details, v3Ret, df >>
          ELSE V3Done(Info("v3 stock object creation failed"))
  /\ UNCHANGED << request, legacyRet, out, sideVars >>

\* lines 247-250, q the values read
V3Read(q) ==
  IF AnyPresent(q) THEN V3Done(Success("vnstock-v3", q))
  ELSE V3Done(Info("v3 returned no data"))

\* line 246
V3Finish(tbl) == V3Read(get_price_from_df(tbl))

\* line 238: df is None or getattr(df, "empty", True)
NoneOrEmpty(tbl) == tbl.k = "none" \/ EmptyAttr(tbl, TRUE)

\* lines 229-238: stock_obj.quote.intraday(...), a raise leaves df = None
V3Intraday ==
  /\ pc = "v_intraday"
  /\ \E hasQI \in BOOLEAN :
       IF ~hasQI
         THEN /\ pc' = "v_history"
              /\ df' = NoneDf
              /\ UNCHANGED << result, details, v3Ret, src, calls >>
       ELSE \E resp \in Responses :
              /\ calls' = Append(calls, Call("v3.intraday", "kw", resp.k))
              /\ IF NoneOrEmpty(resp.tbl)
                   THEN /\ pc' = "v_history"
                        /\ df' = resp.tbl
                        /\ UNCHANGED << result, details, v3Ret, src >>
                 ELSE V3Finish(resp.tbl)
  /\ UNCHANGED << request, legacyRet, out, sideVars >>

\* lines 239-250: stock_obj.quote.history(...), a raise leaves df = None
V3History ==
  /\ pc = "v_history"
  /\ \E hasQH \in BOOLEAN :
       IF ~hasQH
         THEN /\ V3Finish(df)
              /\ UNCHANGED calls
       ELSE \E resp \in Responses :
              /\ calls' = Append(calls, Call("v3.history", "kw", resp.k))
              /\ V3Finish(resp.tbl)
  /\ UNCHANGED << request, legacyRet, out, sideVars >>

(***************************************************************************)
(* price(): stage 3, the historical fallback, and the response.            *)
(***************************************************************************)
\* lines 297 and 321-322: import vnstock as vnmod; an ImportError is caught
FbImport ==
  /\ pc = "f_import"
  /\ IF modOK
       THEN /\ pc' = "f_history"
            /\ UNCHANGED details
     ELSE /\ pc' = "respond"
          /\ details' = details @@ ("historical_exception" :> DetailText("ImportError"))
  /\ UNCHANGED << request, result, legacyRet, v3Ret, df, src, out, calls, sideVars >>

\* lines 308-315: the ways the session-object history block can run, each
\* with the calls it makes and the df it leaves (d when nothing is assigned)
SessionRuns(d) ==
  LET ctor == Call("fb.Vnstock", "kw", "ret")
      stock == Call("fb.stock", "kw", "handle")
  IN  {[log |-> <<>>, tbl |-> d]}
        \cup {[log |-> <<Call("fb.Vnstock", "kw", "Error")>>, tbl |-> d]}
        \cup {[log |-> <<ctor, Call("fb.stock", "kw", h)>>, tbl |-> d] :
                h \in HandleResponses}
        \cup {[log |-> <<ctor, stock, Call("fb.session_history", "kw", resp.k)>>,
               tbl |-> IF resp.k = "ret" THEN resp.tbl ELSE d] :
                resp \in Responses}

\* lines 318-319 with the test left out
FbResultAlways(res, q) == Update(res, QuoteR("historical-fallback", q))

\* lines 318-319
FbResult(res, q) ==
  IF AnyPresent(q) THEN Update(res, QuoteR("historical-fallback", q)) ELSE res

\* lines 318-320, q the values read
FbRead(q, log) ==
  /\ result' = FbResult(result, q)
  /\ details' = IF AnyPresent(q)
                  THEN details @@ ("historical_fallback" :> DetailText("ok"))
                ELSE details
  /\ calls' = calls \o log
  /\ pc' = "respond"

\* line 317
FbExtract(tbl, log) == FbRead(get_price_from_df(tbl), log)

\* lines 307-320
FbFinish(tbl, log) ==
  IF NoneOrEmpty(tbl) /\ VnstockInGlobals
    THEN \E run \in SessionRuns(tbl) : FbExtract(run.tbl, log \o run.log)
  ELSE FbExtract(tbl, log)

\* lines 298-302: hasattr test and the keyword call of stock_historical_data
FbHistory ==
  /\ pc = "f_history"
  /\ IF ~hasH THEN FbFinish(NoneDf, <<>>)
     ELSE \E resp \in Responses :
            IF resp.k = "ret"
              THEN FbFinish(resp.tbl, <<Call("fb.history", "kw", resp.k)>>)
            ELSE /\ pc' = "f_history_alt"
                 /\ calls' = Append(calls, Call("fb.history", "kw", resp.k))
                 /\ UNCHANGED << result, details >>
  /\ UNCHANGED << request, legacyRet, v3Ret, df, src, out, sideVars >>

\* lines 303-306: except Exception, the positional call; a raise gives df = None
FbHistoryAlt ==
  /\ pc = "f_history_alt"
  /\ \E resp \in Responses :
       FbFinish(resp.tbl, <<Call("fb.history", "pos", resp.k)>>)
  /\ UNCHANGED << request, legacyRet, v3Ret, df, src, out, sideVars >>

\* the six fields of the response
Fields == {"symbol", "price", "time", "open", "close", "provider"}

\* the response with the trail attached whatever debug is
RespondWithTrail ==
  /\ pc = "respond"
  /\ out' = [symbol |-> result.symbol, price |-> result.price,
             time |-> result.time, open |-> result.open,
             close |-> result.close,
             provider |-> IF result.provider = "" THEN PyNone
                          ELSE result.provider] @@ ("_debug" :> details)
  /\ pc' = "done"
  /\ UNCHANGED << request, result, details, legacyRet, v3Ret, df, src, calls, sideVars >>

\* lines 324-334: out = {...}; if debug: out["_debug"] = details
Respond ==
  /\ pc = "respond"
  /\ LET quote == [symbol |-> result.symbol, price |-> result.price,
                   time |-> result.time, open |-> result.open,
                   close |-> result.close,
                   provider |-> IF result.provider = "" THEN PyNone
                                ELSE result.provider]
     IN  out' = IF debug THEN quote @@ ("_debug" :> details) ELSE quote
  /\ pc' = "done"
  /\ UNCHANGED << request, result, details, legacyRet, v3Ret, df, src, calls, sideVars >>

\* the state of a request before it starts, lines 257-265, but for its
\* arguments and position
Idle ==
  /\ result = InitResult
  /\ details = << >>
  /\ legacyRet = NoRet
  /\ v3Ret = NoRet
  /\ df = NoneDf
  /\ src = 0
  /\ out = << >>
  /\ calls = << >>

\* one request: lines 257-265
Init ==
  /\ pc = "l_import"
  /\ modOK \in BOOLEAN
  /\ hasH \in (IF modOK THEN BOOLEAN ELSE {FALSE})
  /\ debug \in BOOLEAN
  /\ fallback \in {"close", "none"}
  /\ result = InitResult
  /\ details = << >>
  /\ legacyRet = NoRet
  /\ v3Ret = NoRet
  /\ df = NoneDf
  /\ src = 0
  /\ out = << >>
  /\ calls = << >>
  /\ rowArg = << >>
  /\ rowRes = NoneQuad
  /\ tblArg = NoneDf
  /\ tblRes = NoneQuad
  /\ valArg = Null
  /\ valOnce = Null
  /\ valTwice = Null

Next ==
  \/ LegacyImport
  \/ LegacyIntraday
  \/ LegacyIntradayAlt
  \/ LegacyHistory
  \/ LegacyHistoryAlt
  \/ V3Import
  \/ V3Ctor
  \/ V3StockKw
  \/ V3StockPos
  \/ V3Source
  \/ V3Intraday
  \/ V3History
  \/ FbImport
  \/ FbHistory
  \/ FbHistoryAlt
  \/ Respond

Spec == Init /\ [][Next]_vars

(***************************************************************************)
(* extract_from_row_dict on its own: a record is drawn, then extracted.    *)
(***************************************************************************)
RowKeys == {"lastPrice", "close", "Close", "open", "price", "time", NonStrKey}

RowValues ==
  { Null, Num(10, 0), Num(20, 0), NaN, Str(<<"n", "/", "a">>),
    Str(<<"1", ",", "2", "3", "4", ".", "5">>), Obj(<<"t">>) }

\* the dicts of at most MaxFields pairs, keys distinct
Rows ==
  UNION { { r \in [1..n -> RowKeys \X RowValues] :
              \A i, j \in 1..n : i # j => r[i][1] # r[j][1] } :
          n \in 0..MaxFields }

InitRow ==
  /\ pc = "extract"
  /\ rowArg \in Rows
  /\ rowRes = NoneQuad
  /\ tblArg = NoneDf
  /\ tblRes = NoneQuad
  /\ valArg = Null
  /\ valOnce = Null
  /\ valTwice = Null
  /\ modOK = TRUE
  /\ hasH = TRUE
  /\ debug = FALSE
  /\ fallback = "close"
  /\ result = InitResult
  /\ details = << >>
  /\ legacyRet = NoRet
  /\ v3Ret = NoRet
  /\ df = NoneDf
  /\ src = 0
  /\ out = << >>
  /\ calls = << >>

\* rowRes = extract_from_row_dict(rowArg)
Extract ==
  /\ pc = "extract"
  /\ rowRes' = extract_from_row_dict(rowArg)
  /\ pc' = "extracted"
  /\ UNCHANGED << request, result, details, legacyRet, v3Ret, df, src, out,
                  calls, rowArg, tblVars, valVars >>

NextRow == Extract

SpecRow == InitRow /\ [][NextRow]_vars

(***************************************************************************)
(* get_price_from_df on its own: a table is drawn, then read.  The reader  *)
(* touches tail(1) and head(1) only, so a table of one row and a table of  *)
(* two rows are all the shapes there are; the rows of one table have the   *)
(* same columns in the same order.                                         *)
(***************************************************************************)
TblKeys == {"open", "close", "price", "time", NonStrKey}

TblValues == { Null, Num(9, 0), Num(11, 0), NaN }

\* the column lists of at most MaxFields distinct columns
Columns ==
  UNION { { c \in [1..n -> TblKeys] :
              \A i, j \in 1..n : i # j => c[i] # c[j] } :
          n \in 0..MaxFields }

\* the record of the columns cols with the cells vals
RECURSIVE RowUpTo(_, _, _)
RowUpTo(cols, vals, n) ==
  IF n = 0 THEN << >>
  ELSE Append(RowUpTo(cols, vals, n - 1), << cols[n], vals[n] >>)

RowOver(cols, vals) == RowUpTo(cols, vals, Len(cols))

Cells(cols) == [1..Len(cols) -> TblValues]

\* what code makes a table of records: a DataFrame or a plain list
Makers == {"df", "list"}

Table(maker, rows) == IF maker = "df" THEN DataFrame(rows) ELSE PyList(rows)

\* the tables without a record in them
NoRecordTables == {NoneDf, ForeignDf, ScalarList, DataFrame(<<>>), PyList(<<>>)}

InitTable ==
  /\ pc = "read"
  /\ \/ tblArg \in NoRecordTables
     \/ \E maker \in Makers, c \in Columns :
          \E v \in Cells(c), w \in Cells(c) :
            \/ tblArg = Table(maker, << RowOver(c, w) >>)
            \/ tblArg = Table(maker, << RowOver(c, v), RowOver(c, w) >>)
  /\ tblRes = NoneQuad
  /\ rowArg = << >>
  /\ rowRes = NoneQuad
  /\ valArg = Null
  /\ valOnce = Null
  /\ valTwice = Null
  /\ modOK = TRUE
  /\ hasH = TRUE
  /\ debug = FALSE
  /\ fallback = "close"
  /\ Idle

\* tblRes = get_price_from_df(tblArg)
Read ==
  /\ pc = "read"
  /\ tblRes' = get_price_from_df(tblArg)
  /\ pc' = "read_done"
  /\ UNCHANGED << request, result, details, legacyRet, v3Ret, df, src, out,
                  calls, tblArg, rowVars, valVars >>

NextTable == Read

SpecTable == InitTable /\ [][NextTable]_vars

(***************************************************************************)
(* to_float_safe on its own: a raw value is drawn and coerced, as the      *)
(* extraction does (line 47), and what comes out is coerced again, as the  *)
(* final normalisation of get_price_from_df does (lines 152-155).          *)
(***************************************************************************)
Alphabet == {"1", "5", ",", ".", " "}

Strings == UNION { [1..n -> Alphabet] : n \in 0..MaxStrLen }

RawValues ==
  { Null, NaN, Num(9, 0), Num(12345, 1), Obj(<<"t">>), Obj(<<"1", ",", "5">>),
    Str(<<"n", "a", "n">>), Str(<<"n", "/", "a">>) } \cup
  { Str(s) : s \in Strings }

InitFloat ==
  /\ pc = "coerce"
  /\ valArg \in RawValues
  /\ valOnce = Null
  /\ valTwice = Null
  /\ rowArg = << >>
  /\ rowRes = NoneQuad
  /\ tblArg = NoneDf
  /\ tblRes = NoneQuad
  /\ modOK = TRUE
  /\ hasH = TRUE
  /\ debug = FALSE
  /\ fallback = "close"
  /\ Idle

\* valOnce = to_float_safe(valArg)
Coerce ==
  /\ pc = "coerce"
  /\ valOnce' = to_float_safe(valArg)
  /\ pc' = "normalise"
  /\ UNCHANGED << request, result, details, legacyRet, v3Ret, df, src, out,
                  calls, rowVars, tblVars, valArg, valTwice >>

\* valTwice = to_float_safe(valOnce)
CoerceAgain ==
  /\ pc = "normalise"
  /\ valTwice' = to_float_safe(valOnce)
  /\ pc' = "normalised"
  /\ UNCHANGED << request, result, details, legacyRet, v3Ret, df, src, out,
                  calls, rowVars, tblVars, valArg, valOnce >>

NextFloat == Coerce \/ CoerceAgain

SpecFloat == InitFloat /\ [][NextFloat]_vars

(***************************************************************************)
(* The call history.                                                       *)
(***************************************************************************)
\* the place of an upstream call in the cascade
Rank(c) ==
  CASE c.op = "legacy.intraday" -> IF c.shape = "kw" THEN 1 ELSE 2
    [] c.op = "legacy.history" -> IF c.shape = "kw" THEN 3 ELSE 4
    [] c.op = "v3.Vnstock" -> 5
    [] c.op = "v3.stock" ->
         (CASE c.shape = "kw" -> 6 [] c.shape = "pos" -> 7
            [] c.shape = "VCI" -> 8 [] c.shape = "TCBS" -> 9 [] OTHER -> 10)
    [] c.op = "v3.intraday" -> 11
    [] c.op = "v3.history" -> 12
    [] c.op = "fb.history" -> IF c.shape = "kw" THEN 13 ELSE 14
    [] c.op = "fb.Vnstock" -> 15
    [] c.op = "fb.stock" -> 16
    [] OTHER -> 17

LegacyOps == {"legacy.intraday", "legacy.history"}

V3Ops == {"v3.Vnstock", "v3.stock", "v3.intraday", "v3.history"}

V3QuoteOps == {"v3.intraday", "v3.history"}

FbOps == {"fb.history", "fb.Vnstock", "fb.stock", "fb.session_history"}

Called(ops) == \E i \in DOMAIN calls : calls[i].op \in ops

\* the upstream operation whose table a provider identifier stands for
OpsOfProvider(p) ==
  CASE p = "vnstock-legacy-intraday" -> {"legacy.intraday"}
    [] p = "vnstock-legacy-history" -> {"legacy.history"}
    [] p = "vnstock-v3" -> V3QuoteOps
    [] p = "historical-fallback" -> {"fb.history", "fb.session_history"}
    [] OTHER -> {}

\* the i-th call raised and no alternate shape of it was left to try
RaisedFinal(i) ==
  \/ calls[i].res = "Error"
  \/ calls[i].res = "TypeError" /\ calls[i].shape = "pos"

(***************************************************************************)
(* Properties of the cascade.                                              *)
(***************************************************************************)
\* an attempt came back with a quote
Succeeded(ret) == ~ret.raised /\ ret.r.some

\* the request has its response
Done == pc = "done"

\* C1: upstream calls are made strictly in cascade order, each at most once;
\* after a legacy success no v3 and no fallback call is ever made (and after
\* an intraday success no legacy historical call), after a v3 success no
\* fallback call; the provider of the response names the attempt whose call
\* was the last one made, and that call returned.
C1_FirstSuccessWins ==
  /\ \A i, j \in DOMAIN calls : i < j => Rank(calls[i]) < Rank(calls[j])
  /\ Succeeded(legacyRet) =>
       /\ v3Ret = NoRet
       /\ ~Called(V3Ops \cup FbOps)
       /\ calls[Len(calls)].op \in OpsOfProvider(legacyRet.r.provider)
  /\ Succeeded(v3Ret) => ~Called(FbOps)
  /\ Done /\ Succeeded(legacyRet) => out.provider = legacyRet.r.provider
  /\ Done /\ Succeeded(v3Ret) => out.provider = v3Ret.r.provider
  /\ Done /\ out.provider # PyNone =>
       /\ calls # << >>
       /\ calls[Len(calls)].op \in OpsOfProvider(out.provider)
       /\ calls[Len(calls)].res = "ret"

\* C1 witness: legacy found nothing, v3 succeeded and the response names v3
C1_Witness ==
  /\ Done
  /\ legacyRet.level = "info"
  /\ Succeeded(v3Ret)
  /\ out.provider = "vnstock-v3"
  /\ Called(LegacyOps)

\* C2 (as claimed): when the legacy intraday call raises for good, the legacy
\* historical call is the next upstream call made, and it is made before the
\* request is answered.
C2_HistoryAfterIntradayRaise ==
  \A i \in DOMAIN calls :
    calls[i].op = "legacy.intraday" /\ RaisedFinal(i) /\ hasH =>
      /\ i < Len(calls) => calls[i + 1].op = "legacy.history"
      /\ Done => i < Len(calls)

\* the response carries no price, open, close, time or provider
AllAbsent(o) ==
  /\ IsNone(o.price) /\ IsNone(o.open) /\ IsNone(o.close) /\ IsNone(o.time)
  /\ o.provider = PyNone

\* no stage produced a quote
NoSuccess ==
  /\ ~Succeeded(legacyRet)
  /\ ~Succeeded(v3Ret)
  /\ "historical_fallback" \notin DOMAIN details

\* C3: a request none of whose attempts succeeded is answered with price,
\* open, close, time and provider all absent.
C3_ExhaustedIsAllAbsent == Done /\ NoSuccess => AllAbsent(out)

\* C3 witness: legacy raised, v3 found nothing, the fallback call was made and
\* found nothing either
C3_Witness ==
  /\ Done
  /\ NoSuccess
  /\ legacyRet.level = "error"
  /\ v3Ret.msg = "v3 returned no data"
  /\ Called({"fb.history"})
  /\ AllAbsent(out)

\* C4 (as claimed): when the request is answered, details has an entry for
\* every stage that ran: legacy, v3 if try_v3 was called, and the historical
\* fallback if its upstream call was made.
C4_TrailHasEveryStage ==
  Done =>
    /\ \E k \in {"legacy", "legacy_info", "legacy_exception"} : k \in DOMAIN details
    /\ v3Ret # NoRet =>
         \E k \in {"v3", "v3_info", "v3_exception"} : k \in DOMAIN details
    /\ Called({"fb.history"}) =>
         \E k \in {"historical_fallback", "historical_exception"} :
           k \in DOMAIN details

\* C5: in the response, provider is set exactly when one of price, open,
\* close is present.
C5_ProviderIffPresent == Done => (out.provider # PyNone <=> AnyPresent(out))

\* C5 witness: a response with a provider whose price and close are absent
\* and whose open is present
C5_Witness ==
  /\ Done
  /\ out.provider = "vnstock-v3"
  /\ IsNone(out.price)
  /\ IsNone(out.close)
  /\ ~IsNone(out.open)

\* the positions of a request in price()
Positions ==
  { "l_import", "l_intraday", "l_intraday_alt", "l_history", "l_history_alt",
    "v_import", "v_ctor", "v_stock", "v_stock_pos", "v_source", "v_intraday",
    "v_history", "f_import", "f_history", "f_history_alt", "respond", "done" }

\* C6: whatever fails inside an attempt, try_legacy and try_v3 return a pair
\* and never raise (so price() never records legacy_exception or
\* v3_exception), the request stays on its way to the response, and the
\* response carries the six fields symbol, price, open, close, time, provider.
C6_NothingPropagates ==
  /\ ~legacyRet.raised
  /\ ~v3Ret.raised
  /\ legacyRet # NoRet => legacyRet.level \in {"none", "info", "error"}
  /\ v3Ret # NoRet => v3Ret.level \in {"none", "info", "error"}
  /\ "legacy_exception" \notin DOMAIN details
  /\ "v3_exception" \notin DOMAIN details
  /\ pc \in Positions
  /\ Done => Fields \subseteq DOMAIN out

\* C6 witness: the legacy call raised, the Vnstock constructor raised, the
\* fallback import path ran, and the response is there with its fields
C6_Witness ==
  /\ Done
  /\ legacyRet.msg = "legacy usage exception"
  /\ v3Ret.msg = "v3 exception"
  /\ \E i \in DOMAIN calls : calls[i].op = "fb.history" /\ calls[i].res = "Error"
  /\ Fields \subseteq DOMAIN out

\* the last call of the given operations, 0 when there is none
LastOf(ops) ==
  IF Called(ops)
    THEN CHOOSE i \in DOMAIN calls :
           /\ calls[i].op \in ops
           /\ \A j \in DOMAIN calls : calls[j].op \in ops => j <= i
  ELSE 0

\* C7 (as claimed): an attempt is recorded as "no data" only when its last
\* upstream quote call returned; a call that raised is never recorded so.
C7_NoDataOnlyAfterReturn ==
  /\ legacyRet.msg = "legacy present but returned no data" /\ Called(LegacyOps) =>
       calls[LastOf(LegacyOps)].res = "ret"
  /\ v3Ret.msg = "v3 returned no data" /\ Called(V3QuoteOps) =>
       calls[LastOf(V3QuoteOps)].res = "ret"

\* the i-th call is a v.stock(...) call of the given shape
IsStock(i, shape) == calls[i].op = "v3.stock" /\ calls[i].shape = shape

\* C8: handle construction tries the default handle (keyword, then positional
\* when that raised), then VCI, TCBS, SSI in this order, each only after the
\* one before gave no handle; nothing is probed after a handle was obtained;
\* the attempt ends as "v3 stock object creation failed" exactly when SSI,
\* the last one, gave no handle, and then no quote operation is called.
C8_HandleProbing ==
  /\ \A i \in DOMAIN calls :
       /\ IsStock(i, "kw") => i > 1 /\ calls[i - 1] = Call("v3.Vnstock", "kw", "ret")
       /\ IsStock(i, "pos") => i > 1 /\ calls[i - 1] = Call("v3.stock", "kw", "raise")
       /\ IsStock(i, "VCI") =>
            /\ i > 1
            /\ \/ calls[i - 1] = Call("v3.stock", "kw", "none")
               \/ IsStock(i - 1, "pos") /\ calls[i - 1].res # "handle"
       /\ IsStock(i, "TCBS") =>
            i > 1 /\ IsStock(i - 1, "VCI") /\ calls[i - 1].res # "handle"
       /\ IsStock(i, "SSI") =>
            i > 1 /\ IsStock(i - 1, "TCBS") /\ calls[i - 1].res # "handle"
       /\ calls[i].op = "v3.stock" /\ calls[i].res = "handle" /\ i < Len(calls) =>
            calls[i + 1].op # "v3.stock"
       /\ calls[i].op \in V3QuoteOps =>
            \E j \in 1..(i - 1) : calls[j].op = "v3.stock" /\ calls[j].res = "handle"
  /\ v3Ret.msg = "v3 stock object creation failed" =>
       /\ \E i \in DOMAIN calls : IsStock(i, "SSI") /\ calls[i].res # "handle"
       /\ ~Called(V3QuoteOps)
  /\ (v3Ret # NoRet /\ \E i \in DOMAIN calls : IsStock(i, "SSI") /\ calls[i].res # "handle")
       => v3Ret.msg = "v3 stock object creation failed"

\* C8 witness: every probe failed, of which the positional default and TCBS by
\* raising, and the attempt ended as unavailable
C8_Witness ==
  /\ v3Ret.msg = "v3 stock object creation failed"
  /\ \E i \in DOMAIN calls : IsStock(i, "pos") /\ calls[i].res = "raise"
  /\ \E i \in DOMAIN calls : IsStock(i, "TCBS") /\ calls[i].res = "raise"
  /\ \E i \in DOMAIN calls : IsStock(i, "SSI") /\ calls[i].res = "none"
  /\ Done

\* C9 (as claimed): whenever the first signature shape of a quote operation
\* raises, whatever the error, the next upstream call is the same operation
\* with the alternate shape.
C9_AlternateShapeRetried ==
  \A i \in DOMAIN calls :
    /\ calls[i].op \in LegacyOps \cup V3QuoteOps
    /\ calls[i].shape = "kw"
    /\ calls[i].res # "ret"
    => /\ i < Len(calls) =>
            calls[i + 1].op = calls[i].op /\ calls[i + 1].shape = "pos"
       /\ Done => i < Len(calls)

(***************************************************************************)
(* Properties of extract_from_row_dict.                                    *)
(***************************************************************************)
\* the aliases of a list that are in the folded record with a value that is
\* not None and coerces
Qualifying(keys, lower) ==
  { i \in DOMAIN keys :
      /\ keys[i] \in DOMAIN lower
      /\ ~IsNone(lower[keys[i]])
      /\ ~IsNone(to_float_safe(lower[keys[i]])) }

\* the coerced value of the first qualifying alias, None when there is none
FirstQualifying(keys, lower) ==
  IF Qualifying(keys, lower) = {} THEN Null
  ELSE to_float_safe(lower[keys[CHOOSE i \in Qualifying(keys, lower) :
                                  \A j \in Qualifying(keys, lower) : i <= j]])

\* C10: price, open and close of the extraction are each the coerced value of
\* the first alias of the field's list that the case-folded record holds with
\* a value that coerces, absent when no alias qualifies; {lastPrice: 10,
\* close: 20} gives price 10.
C10_FirstCoercibleAliasWins ==
  pc = "extracted" /\ ~rowRes.raised /\ rowArg # << >> =>
    /\ rowRes.price = FirstQualifying(price_keys, LowerDict(rowArg))
    /\ rowRes.open = FirstQualifying(open_keys, LowerDict(rowArg))
    /\ rowRes.close = FirstQualifying(close_keys, LowerDict(rowArg))
    /\ rowArg = << <<"lastPrice", Num(10, 0)>>, <<"close", Num(20, 0)>> >> =>
         rowRes.price = Num(10, 0)

\* C10 witness: lastPrice is there but does not coerce, so close, a later
\* alias, gives the price
C10_Witness ==
  /\ pc = "extracted"
  /\ rowArg = << <<"lastPrice", Str(<<"n", "/", "a">>)>>, <<"Close", Num(20, 0)>> >>
  /\ rowRes.price = Num(20, 0)
  /\ rowRes.close = Num(20, 0)
  /\ IsNone(rowRes.open)

(***************************************************************************)
(* Properties of get_price_from_df.                                        *)
(***************************************************************************)
\* the table holds records
HasRecords(t) == t.k \in {"df", "list"} /\ t.rows # << >>

FirstRow(t) == t.rows[1]

LastRow(t) == t.rows[Len(t.rows)]

\* every key of the record is a string
StrKeys(row) == \A i \in DOMAIN row : row[i][1] # NonStrKey

\* the reading of the record-holding table tblArg is over and no record of it
\* made the extraction raise
ReadOfRecords ==
  /\ pc = "read_done"
  /\ HasRecords(tblArg)
  /\ StrKeys(LastRow(tblArg))

\* the open the first record stands in with: its open-alias match, else its
\* price-alias match
OpenProxy(first) ==
  IF ~IsNone(FirstQualifying(open_keys, first))
    THEN FirstQualifying(open_keys, first)
  ELSE FirstQualifying(price_keys, first)

\* C11: when the last row yields no open, the open returned is the first
\* row's open-alias match, else the first row's price-alias match; an open
\* found in the last row is kept; [{open: 9, close: null}, {open: null,
\* close: 11}] gives open 9 and close 11.
C11_OpenFromFirstRow ==
  ReadOfRecords =>
    /\ tblRes.open =
         IF ~IsNone(FirstQualifying(open_keys, LowerDict(LastRow(tblArg))))
           THEN FirstQualifying(open_keys, LowerDict(LastRow(tblArg)))
         ELSE OpenProxy(LowerDict(FirstRow(tblArg)))
    /\ tblArg.rows = TwoRowTable.rows =>
         tblRes.open = Num(9, 0) /\ tblRes.close = Num(11, 0)

\* the table of the same maker that holds the last record of t only
LastAlone(t) == [t EXCEPT !.rows = << LastRow(t) >>]

\* C12: the close returned is the last row's close-alias match and, when it
\* has none, the price resolved from the last row; price, time and close are
\* what the last row alone gives, whatever the first row holds.
C12_CloseFromLastRow ==
  ReadOfRecords =>
    /\ tblRes.price = FirstQualifying(price_keys, LowerDict(LastRow(tblArg)))
    /\ tblRes.close =
         IF ~IsNone(FirstQualifying(close_keys, LowerDict(LastRow(tblArg))))
           THEN FirstQualifying(close_keys, LowerDict(LastRow(tblArg)))
         ELSE FirstQualifying(price_keys, LowerDict(LastRow(tblArg)))
    /\ tblRes.time = get_price_from_df(LastAlone(tblArg)).time
    /\ tblRes.price = get_price_from_df(LastAlone(tblArg)).price
    /\ tblRes.close = get_price_from_df(LastAlone(tblArg)).close

\* C12 witness: the last row has a price and no close, the first row has a
\* close; the close returned is the last row's price
C12_Witness ==
  /\ pc = "read_done"
  /\ tblArg = DataFrame(<< << <<"close", Num(9, 0)>>, <<"price", Null>> >>,
                           << <<"close", Null>>, <<"price", Num(11, 0)>> >> >>)
  /\ tblRes = Quad(Num(11, 0), Null, Num(9, 0), Num(11, 0))

\* nothing can be read off the table: it is None, it is empty, indexing it
\* raises, its last element converts to no dict, or a key of its records is
\* no string (k.lower() raises)
Unreadable(t) ==
  \/ t \in NoRecordTables
  \/ HasRecords(t) /\ ~StrKeys(LastRow(t))

\* C13: get_price_from_df never raises to its caller, and for an absent
\* table, an empty table and a table whose indexing, row conversion or
\* extraction raises it returns price, time, open and close all absent.
C13_ReaderIsTotal ==
  pc = "read_done" =>
    /\ ~tblRes.raised
    /\ Unreadable(tblArg) => tblRes = NoneQuad

\* C13 witness: a DataFrame whose column name is a number; the extraction
\* raises inside the reader and the result is all absent
C13_Witness ==
  /\ pc = "read_done"
  /\ tblArg = DataFrame(<< << <<NonStrKey, Num(9, 0)>> >> >>)
  /\ tblRes = NoneQuad

\* C20: a read that returns a price returns a close with it; the open may
\* be absent all the same.
C20_PriceImpliesClose ==
  pc = "read_done" /\ ~IsNone(tblRes.price) => ~IsNone(tblRes.close)

\* C20 witness: the only column is price, empty in the first row; the read
\* returns price and close and no open
C20_Witness ==
  /\ pc = "read_done"
  /\ tblArg = DataFrame(<< << <<"price", Null>> >>,
                           << <<"price", Num(11, 0)>> >> >>)
  /\ tblRes.price = Num(11, 0)
  /\ tblRes.close = Num(11, 0)
  /\ IsNone(tblRes.open)

(***************************************************************************)
(* Properties of the response.                                             *)
(***************************************************************************)
\* C14: without debug the response has exactly the fields symbol, price,
\* open, close, time and provider, each a value of the quote, so that it is
\* the same for any two requests ending with the same quote whatever their
\* attempts reported; _debug is in the response exactly when debug was asked.
C14_TrailOnlyOnDebug ==
  Done =>
    /\ "_debug" \in DOMAIN out <=> debug
    /\ ~debug =>
         /\ DOMAIN out = Fields
         /\ out = [f \in Fields |->
                     IF f = "provider" /\ result[f] = "" THEN PyNone
                     ELSE result[f]]

\* C14 witness: a request without debug that got its quote from the v3 stage
\* after the legacy stage left a failure in the trail
C14_Witness ==
  /\ Done
  /\ ~debug
  /\ "legacy_info" \in DOMAIN details
  /\ ~Succeeded(legacyRet)
  /\ out.provider = "vnstock-v3"
  /\ out.price = Num(11, 0)
  /\ DOMAIN out = Fields

(***************************************************************************)
(* Properties of the coercion.                                             *)
(***************************************************************************)
\* a finite number or absent
FiniteOrAbsent(v) == IsNone(v) \/ v.k = "num"

\* C15: price, open and close of a quote read off a table are each a finite
\* number or absent, never NaN, whatever the cells of the table hold.
C15_NumericFieldsFinite ==
  pc = "read_done" =>
    /\ FiniteOrAbsent(tblRes.price)
    /\ FiniteOrAbsent(tblRes.open)
    /\ FiniteOrAbsent(tblRes.close)

\* C16: coercing a coerced value gives the coerced value: the second
\* to_float_safe, which is the final normalisation pass, changes nothing and
\* turns no present value into an absent one.
C16_CoercionIdempotent ==
  pc = "normalised" =>
    /\ valTwice = valOnce
    /\ ~IsNone(valOnce) => ~IsNone(valTwice)

\* C16 witness: "1,5" coerces to 15 at the second try and stays 15
C16_Witness ==
  /\ pc = "normalised"
  /\ valArg = Str(<<"1", ",", "5">>)
  /\ valOnce = Num(15, 0)
  /\ valTwice = Num(15, 0)

(***************************************************************************)
(* Properties of the historical-fallback stage.                            *)
(***************************************************************************)
\* the request is over and its historical-fallback stage got past the import
FallbackStageRan ==
  /\ Done
  /\ modOK
  /\ fallback = "close"
  /\ ~Succeeded(legacyRet)
  /\ ~Succeeded(v3Ret)

\* the flat historical operation is missing, or its last call raised
FlatHistoryFailed ==
  \/ ~hasH
  \/ \E i \in DOMAIN calls :
       calls[i].op = "fb.history" /\ calls[i].shape = "pos" /\ calls[i].res # "ret"

\* C18: when the historical-fallback stage finds the flat historical
\* operation missing or raising, it goes to the session object
\* (Vnstock().stock(symbol).quote.history) before it gives up; the class
\* Vnstock is importable here, try_v3 having constructed one.
C18_SessionHistoryTried ==
  FallbackStageRan /\ FlatHistoryFailed /\ Called({"v3.Vnstock"}) =>
    Called({"fb.Vnstock", "fb.stock", "fb.session_history"})

(***************************************************************************)
(* Properties of the result dict.                                          *)
(***************************************************************************)
\* the result dict holds the five values of the attempt's dict r
FromAttempt(res, r) ==
  /\ r.some
  /\ res.price = r.price
  /\ res.time = r.time
  /\ res.open = r.open
  /\ res.close = r.close
  /\ res.provider = r.provider

\* the dicts the attempts of the step just taken hand to price(): what
\* try_legacy and try_v3 came back with and what the fallback stage reads off
\* a table
AttemptsNow ==
  {legacyRet'.r, v3Ret'.r} \cup
  { QuoteR("historical-fallback", get_price_from_df(t)) : t \in Tables }

\* C19: a step of price() leaves price, time, open, close and provider of
\* the result as they are or sets all five from the dict of one attempt, and
\* it sets them only while the result holds nothing; so the five values
\* returned never come from two attempts.
C19_QuoteFromOneAttempt ==
  [][ result' # result =>
        /\ result = InitResult
        /\ result'.symbol = result.symbol
        /\ \E r \in AttemptsNow : FromAttempt(result', r) ]_vars

\* C19 witness: the legacy stage came back with nothing and the quote
\* returned is the one of the v3 attempt, open of the first row included
C19_Witness ==
  /\ Done
  /\ ~Succeeded(legacyRet)
  /\ Succeeded(v3Ret)
  /\ FromAttempt(result, v3Ret.r)
  /\ result.open = Num(9, 0)
  /\ result.price = Num(11, 0)
  /\ out.provider = v3Ret.r.provider

====
